---- MODULE Spec2Model ----
(***************************************************************************)
(* Model of picam.py: the motion classifier (DetectMotion.analyze), the    *)
(* recording control loop (main) and the file helpers (write_video,        *)
(* concat_vids, convert_video, gen_img_name).                              *)
(*                                                                         *)
(* Time is counted in whole seconds.  The capture pipeline is the          *)
(* environment: every second of recording the encoder of splitter port 1   *)
(* emits one chunk (one group of pictures, opened by an SPS header) to its *)
(* current destination, and the motion output on splitter port 2 delivers  *)
(* frames to analyze() at any moment.                                      *)
(***************************************************************************)
EXTENDS Integers, Sequences, FiniteSets, TLC

(* ------------------------------ bounds --------------------------------- *)
\* Clock reading when main() enters its try block.
StartTime == 10
\* Number of seconds the model follows the program.
Horizon == 11
MaxTime == StartTime + Horizon
\* Seconds followed in the runs without conversion, errors and interrupt.
BusyHorizon == 14
MaxTimeBusy == StartTime + BusyHorizon
\* main(still_img_interval=...): seconds between two stills, in whole seconds.
StillImgInterval == 1

(* ------------------------- program constants --------------------------- *)
MotionTimeout == 5
MotionMagnitude == 30
MotionVectorCount == 20
CircularSecs == 5
WarmUp == 2
PollInterval == 1

\* Value of the local `ts' of main before line 131 has run.
Unbound == -1

VARIABLES
    now,              \* time.time(), in seconds
    motion_detected,  \* DetectMotion.motion_detected
    latest_motion,    \* DetectMotion.latest_motion
    lastCount,        \* number of vectors above the magnitude in the frame analyzed last
    convert_vids,     \* main's parameter: 0 (False) or the quiet window (True = 1)
    pc,               \* position of the control loop of main
    deadline,         \* end of the wait_recording the loop is blocked in
    ts,               \* main's local `ts'
    counter,          \* gen_img_name's counter
    dest,             \* where splitter port 1 writes: "stream" or "after"
    stream,           \* content of the PiCameraCircularIO ring
    files,            \* the directory: file name -> content
    recording,        \* splitter ports that are recording
    exc,              \* exception that left the loop, "none" if none
    log               \* operations done so far, per episode (history)

vars == <<now, motion_detected, latest_motion, lastCount, convert_vids, pc,
          deadline, ts, counter, dest, stream, files, recording, exc, log>>

(* ---------------------------- motion frames ---------------------------- *)
\* Motion vectors (x, y), signed bytes: one of magnitude exactly 30, one of 31.1.
Vectors == { <<18, 24>>, <<22, 22>> }
Counts == {0, MotionVectorCount, MotionVectorCount + 1}
\* A frame gives the number of blocks carrying each vector (the other blocks are still).
Frames == [Vectors -> Counts]

\* int(sqrt(n)) : astype(np.uint8) truncates.
RECURSIVE ISqrtIn(_, _, _)
ISqrtIn(n, lo, hi) ==
    IF lo = hi THEN lo
    ELSE LET mid == (lo + hi + 1) \div 2
         IN  IF mid * mid <= n THEN ISqrtIn(n, mid, hi) ELSE ISqrtIn(n, lo, mid - 1)
ISqrt(n) == ISqrtIn(n, 0, 255)

Clip(x, lo, hi) == IF x < lo THEN lo ELSE IF x > hi THEN hi ELSE x

Magnitude(v) == Clip(ISqrt(v[1] * v[1] + v[2] * v[2]), 0, 255) % 256

RECURSIVE SumOver(_, _)
SumOver(f, S) ==
    IF S = {} THEN 0
    ELSE LET v == CHOOSE w \in S : TRUE IN f[v] + SumOver(f, S \ {v})

\* The vectors v with a > self.motion_magnitude
Exceeding == {v \in Vectors : Magnitude(v) > MotionMagnitude}

\* (a > self.motion_magnitude).sum()
ExceedCount(f) == SumOver(f, Exceeding)

QualifiesAtCount(f) == ExceedCount(f) >= MotionVectorCount

Qualifies(f) == ExceedCount(f) > MotionVectorCount

TimedOutAtTimeout(t) == t - latest_motion >= MotionTimeout

TimedOut(t) == t - latest_motion > MotionTimeout

(* ------------------------------ the files ------------------------------ *)
AfterName == <<"after">>
H264Name(t) == <<"h264", t>>
Mp4Name(t) == <<"mp4", t>>
JpgName(t, c) == <<"jpg", t, c>>

Exists(F, n) == n \in DOMAIN F
Put(F, n, c) == [x \in DOMAIN F \cup {n} |-> IF x = n THEN c ELSE F[x]]
Remove(F, n) == [x \in DOMAIN F \ {n} |-> F[x]]
Content(F, n) == IF Exists(F, n) THEN F[n] ELSE <<>>
NoFiles == [x \in {} |-> <<>>]

(* ------------------------- the capture pipeline ------------------------ *)
\* One second of encoded video.
Chunk(t) == [t |-> t, sps |-> TRUE]

\* PiCameraCircularIO(camera, seconds=circular_secs) keeps the latest seconds.
RingAppend(s, c) ==
    IF Len(s) < CircularSecs THEN Append(s, c) ELSE Append(Tail(s), c)

\* The encoder of splitter port 1 writes to the ring or to the open segment.
EncoderWrite(c) ==
    IF 1 \notin recording
    THEN UNCHANGED <<stream, files>>
    ELSE IF dest = "stream"
         THEN stream' = RingAppend(stream, c) /\ UNCHANGED files
         ELSE /\ files' = IF Exists(files, AfterName)
                          THEN Put(files, AfterName, Append(files[AfterName], c))
                          ELSE files
              /\ UNCHANGED stream

\* The calls in which the control loop spends time: the three wait_recording
\* calls, which return when their time is up, the file copies of write_video
\* and concat_vids, and the transcoder run of convert_video.
Waits == {"warmup", "wait", "stillwait"}
Blocking == Waits \cup {"write", "concat", "convert"}

\* A second passes.
Tick ==
    /\ pc \in Blocking
    /\ pc \in Waits => now < deadline
    /\ now < MaxTime
    /\ now' = now + 1
    /\ EncoderWrite(Chunk(now))
    /\ UNCHANGED <<motion_detected, latest_motion, lastCount, convert_vids, pc,
                   deadline, ts, counter, dest, recording, exc, log>>

(* --------------------------- DetectMotion ------------------------------ *)
\* analyze() with the timeout test ahead of the motion test.
AnalyzeResultTimeoutFirst(f, t) ==
    IF motion_detected /\ TimedOut(t)
    THEN [motion_detected |-> FALSE, latest_motion |-> latest_motion]
    ELSE IF Qualifies(f)
         THEN [motion_detected |-> TRUE, latest_motion |-> t]
         ELSE [motion_detected |-> motion_detected, latest_motion |-> latest_motion]

\* The new (motion_detected, latest_motion) after analyze() saw frame f at time t.
AnalyzeResult(f, t) ==
    IF Qualifies(f)
    THEN [motion_detected |-> TRUE, latest_motion |-> t]
    ELSE IF motion_detected /\ TimedOut(t)
         THEN [motion_detected |-> FALSE, latest_motion |-> latest_motion]
         ELSE [motion_detected |-> motion_detected, latest_motion |-> latest_motion]

Analyze(f) ==
    /\ 2 \in recording
    /\ motion_detected' = AnalyzeResult(f, now).motion_detected
    /\ latest_motion' = AnalyzeResult(f, now).latest_motion
    /\ lastCount' = ExceedCount(f)
    /\ UNCHANGED <<now, convert_vids, pc, deadline, ts, counter, dest, stream,
                   files, recording, exc, log>>

(* ------------------------------ helpers -------------------------------- *)
\* Index of the first frame that is an SPS header, Len(s) + 1 if there is none.
FirstSps(s) ==
    IF \E i \in 1..Len(s) : s[i].sps
    THEN CHOOSE i \in 1..Len(s) : s[i].sps /\ \A j \in 1..(i - 1) : ~s[j].sps
    ELSE Len(s) + 1

\* write_video without the final seek(0) and truncate().
write_video_no_truncate(F, s, t) ==
    [files |-> Put(F, H264Name(t), SubSeq(s, FirstSps(s), Len(s))),
     stream |-> s]

\* write_video(stream, ts): the directory and the ring afterwards.
write_video(F, s, t) ==
    [files |-> Put(F, H264Name(t), SubSeq(s, FirstSps(s), Len(s))),
     stream |-> <<>>]

\* concat_vids opening the pre-roll file with 'wb' instead of 'ab'.
concat_vids_overwrite(F, t, readable) ==
    IF readable /\ Exists(F, AfterName)
    THEN [files |-> Remove(Put(F, H264Name(t), F[AfterName]), AfterName),
          raised |-> FALSE]
    ELSE [files |-> Put(F, H264Name(t), <<>>), raised |-> TRUE]

\* concat_vids without line 90.
concat_vids_keep_after(F, t, readable) ==
    IF readable /\ Exists(F, AfterName)
    THEN [files |-> Put(F, H264Name(t), Content(F, H264Name(t)) \o F[AfterName]),
          raised |-> FALSE]
    ELSE [files |-> Put(F, H264Name(t), Content(F, H264Name(t))), raised |-> TRUE]

\* concat_vids(ts); readable: open('after.h264', 'rb') succeeds.
concat_vids(F, t, readable) ==
    LET opened == Put(F, H264Name(t), Content(F, H264Name(t)))
    IN  IF readable /\ Exists(F, AfterName)
        THEN [files |-> Remove(Put(opened, H264Name(t),
                                   opened[H264Name(t)] \o F[AfterName]), AfterName),
              raised |-> FALSE]
        ELSE [files |-> opened, raised |-> TRUE]

\* avconv -i infile -acodec copy -vcodec copy outfile; status: its exit code
\* when it can read infile.
Transcode(F, infile, outfile, status) ==
    IF ~Exists(F, infile) THEN [files |-> F, returncode |-> 1]
    ELSE IF status = 0 THEN [files |-> Put(F, outfile, F[infile]), returncode |-> 0]
    ELSE [files |-> F, returncode |-> status]

\* convert_video removing the source without looking at the exit code.
convert_video_unchecked(F, t, status) ==
    LET result == Transcode(F, H264Name(t), Mp4Name(t), status)
    IN  IF Exists(result.files, H264Name(t))
        THEN [files |-> Remove(result.files, H264Name(t)),
              returncode |-> result.returncode, raised |-> FALSE]
        ELSE [files |-> result.files, returncode |-> result.returncode,
              raised |-> TRUE]

\* convert_video removing the source when the transcoder failed.
convert_video_inverted(F, t, status) ==
    LET result == Transcode(F, H264Name(t), Mp4Name(t), status)
    IN  IF result.returncode # 0 /\ Exists(result.files, H264Name(t))
        THEN [files |-> Remove(result.files, H264Name(t)),
              returncode |-> result.returncode, raised |-> FALSE]
        ELSE [files |-> result.files, returncode |-> result.returncode,
              raised |-> FALSE]

\* convert_video(ts)
convert_video(F, t, status) ==
    LET result == Transcode(F, H264Name(t), Mp4Name(t), status)
    IN  IF result.returncode = 0
        THEN IF Exists(result.files, H264Name(t))
             THEN [files |-> Remove(result.files, H264Name(t)),
                   returncode |-> 0, raised |-> FALSE]
             ELSE [files |-> result.files, returncode |-> 0, raised |-> TRUE]
        ELSE [files |-> result.files, returncode |-> result.returncode,
              raised |-> FALSE]

\* gen_img_name yielding the name before it increments the counter.
gen_img_name_zero_based(c, t) == [counter |-> c + 1, name |-> JpgName(t, c)]

\* next(img_name)
gen_img_name(c, t) == [counter |-> c + 1, name |-> JpgName(t, c + 1)]

(* ------------------------------- main ---------------------------------- *)
IsStillOp(op) == op = "still"
NumStillsIn(ops) == Len(SelectSeq(ops, IsStillOp))

\* History: the operations of the latest episode in order, the number of
\* transcoder runs, the exit code of the latest run and whether its source existed.
NoLog == [ops |-> <<>>, conv |-> 0, rc |-> -1, src |-> FALSE]
Did(op) == [log EXCEPT !.ops = Append(@, op)]

Init ==
    /\ now = StartTime
    /\ motion_detected = FALSE
    /\ latest_motion = 0
    /\ lastCount = -1
    /\ convert_vids \in {0, 1}
    /\ pc = "warmup"
    /\ deadline = StartTime + WarmUp
    /\ ts = Unbound
    /\ counter = 0
    /\ dest = "stream"
    /\ stream = <<>>
    /\ files = NoFiles
    /\ recording = {1, 2}
    /\ exc = "none"
    /\ log = NoLog

\* The warm-up ending with latest_motion reset along with the flag.
WarmUpDoneResetsBoth ==
    /\ pc = "warmup"
    /\ now >= deadline
    /\ motion_detected' = FALSE
    /\ latest_motion' = 0
    /\ pc' = "loop"
    /\ UNCHANGED <<now, lastCount, convert_vids, deadline, ts,
                   counter, dest, stream, files, recording, exc, log>>

\* The warm-up ending without line 123.
WarmUpDoneNoReset ==
    /\ pc = "warmup"
    /\ now >= deadline
    /\ pc' = "loop"
    /\ UNCHANGED <<now, motion_detected, latest_motion, lastCount, convert_vids,
                   deadline, ts, counter, dest, stream, files, recording, exc, log>>

\* Lines 122-123: the warm-up wait ends and the flag is cleared.
WarmUpDone ==
    /\ pc = "warmup"
    /\ now >= deadline
    /\ motion_detected' = FALSE
    /\ pc' = "loop"
    /\ UNCHANGED <<now, latest_motion, lastCount, convert_vids, deadline, ts,
                   counter, dest, stream, files, recording, exc, log>>

\* Line 126: camera.wait_recording(1) starts.
LoopTop ==
    /\ pc = "loop"
    /\ deadline' = now + PollInterval
    /\ pc' = "wait"
    /\ UNCHANGED <<now, motion_detected, latest_motion, lastCount, convert_vids,
                   ts, counter, dest, stream, files, recording, exc, log>>

\* Lines 126-127: the wait is over.
WaitDone ==
    /\ pc = "wait"
    /\ now >= deadline
    /\ pc' = "check"
    /\ UNCHANGED <<now, motion_detected, latest_motion, lastCount, convert_vids,
                   deadline, ts, counter, dest, stream, files, recording, exc, log>>

QuietWindow == convert_vids # 0 /\ now - latest_motion > convert_vids

\* Lines 128 and 141: which branch of the loop body runs.
Check ==
    /\ pc = "check"
    /\ pc' = IF motion_detected THEN "split"
             ELSE IF QuietWindow THEN "convert" ELSE "loop"
    /\ UNCHANGED <<now, motion_detected, latest_motion, lastCount, convert_vids,
                   deadline, ts, counter, dest, stream, files, recording, exc, log>>

\* Line 130 missing: the episode starts without redirecting the encoder.
SplitToAfterNoRedirect ==
    /\ pc = "split"
    /\ files' = Put(files, AfterName, <<>>)
    /\ ts' = now
    /\ log' = [log EXCEPT !.ops = <<"split">>]
    /\ pc' = "write"
    /\ UNCHANGED <<now, motion_detected, latest_motion, lastCount, convert_vids,
                   deadline, counter, dest, stream, recording, exc>>

\* Line 131 with a format of one-minute resolution.
SplitToAfterMinuteStamp ==
    /\ pc = "split"
    /\ dest' = "after"
    /\ files' = Put(files, AfterName, <<>>)
    /\ ts' = now \div 60
    /\ log' = [log EXCEPT !.ops = <<"split">>]
    /\ pc' = "write"
    /\ UNCHANGED <<now, motion_detected, latest_motion, lastCount, convert_vids,
                   deadline, counter, stream, recording, exc>>

\* Lines 130-131: split_recording("after.h264") and the episode's timestamp.
SplitToAfter ==
    /\ pc = "split"
    /\ dest' = "after"
    /\ files' = Put(files, AfterName, <<>>)
    /\ ts' = now
    /\ log' = [log EXCEPT !.ops = <<"split">>]
    /\ pc' = "write"
    /\ UNCHANGED <<now, motion_detected, latest_motion, lastCount, convert_vids,
                   deadline, counter, stream, recording, exc>>

\* Line 132; writable: io.open(..., 'wb') succeeds.
WriteVideo(writable) ==
    /\ pc = "write"
    /\ IF writable
       THEN /\ files' = write_video(files, stream, ts).files
            /\ stream' = write_video(files, stream, ts).stream
            /\ log' = [log EXCEPT !.ops = @ \o <<"flush", "truncate">>]
            /\ pc' = "stilltest"
            /\ exc' = exc
       ELSE /\ exc' = "OSError"
            /\ pc' = "finally"
            /\ UNCHANGED <<files, stream, log>>
    /\ UNCHANGED <<now, motion_detected, latest_motion, lastCount, convert_vids,
                   deadline, ts, counter, dest, recording>>

\* Line 133 as the test of a do-while loop: the first still is taken untested.
StillTestAlways ==
    /\ pc = "stilltest"
    /\ pc' = IF motion_detected \/ NumStillsIn(log.ops) = 0
             THEN "capture" ELSE "splitback"
    /\ UNCHANGED <<now, motion_detected, latest_motion, lastCount, convert_vids,
                   deadline, ts, counter, dest, stream, files, recording, exc, log>>

\* Line 133: while output.motion_detected
StillTest ==
    /\ pc = "stilltest"
    /\ pc' = IF motion_detected THEN "capture" ELSE "splitback"
    /\ UNCHANGED <<now, motion_detected, latest_motion, lastCount, convert_vids,
                   deadline, ts, counter, dest, stream, files, recording, exc, log>>

\* Lines 135-136: capture one still, then wait_recording(still_img_interval) starts.
Capture ==
    /\ pc = "capture"
    /\ counter' = gen_img_name(counter, now).counter
    /\ files' = Put(files, gen_img_name(counter, now).name, <<>>)
    /\ log' = Did("still")
    /\ deadline' = now + StillImgInterval
    /\ pc' = "stillwait"
    /\ UNCHANGED <<now, motion_detected, latest_motion, lastCount, convert_vids,
                   ts, dest, stream, recording, exc>>

\* Line 136: the wait is over.
StillWaitDone ==
    /\ pc = "stillwait"
    /\ now >= deadline
    /\ pc' = "stilltest"
    /\ UNCHANGED <<now, motion_detected, latest_motion, lastCount, convert_vids,
                   deadline, ts, counter, dest, stream, files, recording, exc, log>>

\* Line 137: split_recording(stream)
SplitBack ==
    /\ pc = "splitback"
    /\ dest' = "stream"
    /\ log' = Did("splitback")
    /\ pc' = "concat"
    /\ UNCHANGED <<now, motion_detected, latest_motion, lastCount, convert_vids,
                   deadline, ts, counter, stream, files, recording, exc>>

\* Line 138
ConcatVids(readable) ==
    /\ pc = "concat"
    /\ files' = concat_vids(files, ts, readable).files
    /\ IF concat_vids(files, ts, readable).raised
       THEN exc' = "OSError" /\ pc' = "finally" /\ log' = log
       ELSE exc' = exc /\ pc' = "loop" /\ log' = Did("assemble")
    /\ UNCHANGED <<now, motion_detected, latest_motion, lastCount, convert_vids,
                   deadline, ts, counter, dest, stream, recording>>

\* Line 142: convert_video(ts); an unassigned ts raises UnboundLocalError.
ConvertVideo(status) ==
    /\ pc = "convert"
    /\ IF ts = Unbound
       THEN /\ exc' = "UnboundLocalError"
            /\ pc' = "finally"
            /\ UNCHANGED <<files, log>>
       ELSE /\ files' = convert_video(files, ts, status).files
            /\ log' = [log EXCEPT !.conv = @ + 1,
                                  !.rc = convert_video(files, ts, status).returncode,
                                  !.src = Exists(files, H264Name(ts))]
            /\ IF convert_video(files, ts, status).raised
               THEN exc' = "OSError" /\ pc' = "finally"
               ELSE exc' = exc /\ pc' = "loop"
    /\ UNCHANGED <<now, motion_detected, latest_motion, lastCount, convert_vids,
                   deadline, ts, counter, dest, stream, recording>>

InTry == {"warmup", "loop", "wait", "check", "split", "write", "stilltest",
          "capture", "stillwait", "splitback", "concat", "convert"}

\* Lines 144-145: the operator interrupts the loop.
KeyboardInterrupt ==
    /\ pc \in InTry
    /\ exc' = "KeyboardInterrupt"
    /\ pc' = "finally"
    /\ UNCHANGED <<now, motion_detected, latest_motion, lastCount, convert_vids,
                   deadline, ts, counter, dest, stream, files, recording, log>>

\* stop_recording on the first splitter port only.
StopRecordingFirst(ports) == recording \ {1}

\* Lines 147-150: stop_recording on the splitter ports.
StopRecording(ports) == recording \ ports

Finally ==
    /\ pc = "finally"
    /\ recording' = StopRecording({1, 2})
    /\ pc' = "done"
    /\ UNCHANGED <<now, motion_detected, latest_motion, lastCount, convert_vids,
                   deadline, ts, counter, dest, stream, files, exc, log>>

Next ==
    \/ Tick
    \/ \E f \in Frames : Analyze(f)
    \/ WarmUpDone
    \/ LoopTop
    \/ WaitDone
    \/ Check
    \/ SplitToAfter
    \/ \E writable \in BOOLEAN : WriteVideo(writable)
    \/ StillTest
    \/ Capture
    \/ StillWaitDone
    \/ SplitBack
    \/ \E readable \in BOOLEAN : ConcatVids(readable)
    \/ \E status \in {0, 1} : ConvertVideo(status)
    \/ KeyboardInterrupt
    \/ Finally

Spec == Init /\ [][Next]_vars

(* Runs of main(convert_vids=False) in which no file operation fails and the  *)
(* operator does not interrupt, followed for a longer time.                   *)
TickBusy ==
    /\ pc \in Blocking
    /\ pc \in Waits => now < deadline
    /\ now < MaxTimeBusy
    /\ now' = now + 1
    /\ EncoderWrite(Chunk(now))
    /\ UNCHANGED <<motion_detected, latest_motion, lastCount, convert_vids, pc,
                   deadline, ts, counter, dest, recording, exc, log>>

InitBusy == Init /\ convert_vids = 0

NextBusy ==
    \/ TickBusy
    \/ \E f \in Frames : Analyze(f)
    \/ WarmUpDone
    \/ LoopTop
    \/ WaitDone
    \/ Check
    \/ SplitToAfter
    \/ WriteVideo(TRUE)
    \/ StillTest
    \/ Capture
    \/ StillWaitDone
    \/ SplitBack
    \/ ConcatVids(TRUE)

BusySpec == InitBusy /\ [][NextBusy]_vars

(* Runs in which the capture pipeline and the loop keep going: no file       *)
(* operation fails, the operator does not interrupt, frames keep arriving    *)
(* (many per second, so a flag that has timed out is cleared before another  *)
(* second has passed) and no frame qualifies from QuietFrom on, which leaves *)
(* the time for the timeout and the last wait of the still loop.             *)
QuietFrom == MaxTime - MotionTimeout - StillImgInterval

TickLive ==
    /\ ~(2 \in recording /\ motion_detected /\ now - latest_motion > MotionTimeout)
    /\ Tick

AnalyzeLive(f) ==
    /\ Qualifies(f) => now < QuietFrom
    /\ Analyze(f)

Frame == \E f \in Frames : AnalyzeLive(f)

Controller ==
    \/ WarmUpDone
    \/ LoopTop
    \/ WaitDone
    \/ Check
    \/ SplitToAfter
    \/ WriteVideo(TRUE)
    \/ StillTest
    \/ Capture
    \/ StillWaitDone
    \/ SplitBack
    \/ ConcatVids(TRUE)
    \/ \E status \in {0, 1} : ConvertVideo(status)
    \/ Finally

NextLive == TickLive \/ Frame \/ Controller

LiveSpec ==
    /\ Init
    /\ [][NextLive]_vars
    /\ WF_vars(TickLive)
    /\ WF_vars(Frame)
    /\ WF_vars(Controller)

TypeOK ==
    /\ now \in StartTime..MaxTime
    /\ motion_detected \in BOOLEAN
    /\ latest_motion \in 0..MaxTime
    /\ pc \in InTry \cup {"finally", "done"}
    /\ recording \subseteq {1, 2}
    /\ dest \in {"stream", "after"}
    /\ Len(stream) <= CircularSecs

(* ------------------------------ properties ----------------------------- *)
Last(s) == s[Len(s)]
EndsWith(s, op) == Len(s) > 0 /\ Last(s) = op
IsStill(op) == op = "still"
IsStep(op) == op # "still"
Steps(ops) == SelectSeq(ops, IsStep)
NumStills(ops) == Len(SelectSeq(ops, IsStill))
Opened == <<"split", "flush", "truncate">>
Closed == <<"split", "flush", "truncate", "splitback", "assemble">>
\* The control loop leaves the call it is in by returning or raising, not by an interrupt.
Returns(p) == pc = p /\ pc' # p /\ exc' # "KeyboardInterrupt"

\* C1 as stated: whenever the motion flag changes from true to false, the
\* current time minus latest_motion is strictly greater than motion_timeout,
\* over the whole program, startup included.
C1_Original ==
    [][(motion_detected /\ ~motion_detected')
         => now - latest_motion > MotionTimeout]_vars

\* C1 amended: whenever the motion flag changes from true to false by any step
\* other than the reset that ends the startup warm-up (line 123), the current
\* time minus latest_motion is strictly greater than motion_timeout.
C1_Hysteresis ==
    [][(motion_detected /\ ~motion_detected' /\ ~(pc = "warmup" /\ pc' = "loop"))
         => now - latest_motion > MotionTimeout]_vars

\* An episode whose still loop has just seen the flag cleared by analyze().
C1_Witness ==
    /\ pc = "splitback"
    /\ ~motion_detected
    /\ now - latest_motion > MotionTimeout

\* C2: a frame whose number of vectors above motion_magnitude is at most
\* motion_vector_count never sets the flag and never changes latest_motion;
\* an inactive flag stays inactive, an active one inside the timeout stays active.
C2_NoTrigger ==
    [][\A f \in Frames :
         (ExceedCount(f) <= MotionVectorCount /\ Analyze(f))
            => /\ latest_motion' = latest_motion
               /\ motion_detected' => motion_detected
               /\ (motion_detected /\ now - latest_motion <= MotionTimeout)
                     => motion_detected']_vars

\* The latest frame had exactly motion_vector_count vectors above the magnitude
\* and the flag coasts.
C2_Witness ==
    /\ lastCount = MotionVectorCount
    /\ motion_detected
    /\ latest_motion < now
    /\ now - latest_motion <= MotionTimeout

\* C3: a frame with more than motion_vector_count vectors above
\* motion_magnitude sets the flag and latest_motion = now, whatever the state before.
C3_Trigger ==
    [][\A f \in Frames :
         (ExceedCount(f) > MotionVectorCount /\ Analyze(f))
            => motion_detected' /\ latest_motion' = now]_vars

\* A qualifying frame was analyzed during an episode, more than motion_timeout
\* after the episode's start.
C3_Witness ==
    /\ lastCount > MotionVectorCount
    /\ motion_detected
    /\ latest_motion = now
    /\ ts # Unbound
    /\ now - ts > MotionTimeout

\* C4: every episode runs split, flush, truncate, stills (zero or more), split
\* back, assemble in this order, each step but the stills exactly once, and the
\* ring is empty from the flush to the split back.
C4_EpisodeOrder ==
    /\ pc = "write" => log.ops = <<"split">>
    /\ pc \in {"stilltest", "capture", "stillwait", "splitback"}
          => /\ Steps(log.ops) = Opened
             /\ SubSeq(log.ops, 1, 3) = Opened
             /\ stream = <<>>
    /\ pc = "concat"
          => /\ Steps(log.ops) = SubSeq(Closed, 1, 4)
             /\ SubSeq(log.ops, 1, 3) = Opened
             /\ EndsWith(log.ops, "splitback")
    /\ (pc \in {"loop", "wait", "check", "convert"} /\ ts # Unbound)
          => /\ Steps(log.ops) = Closed
             /\ SubSeq(log.ops, 1, 3) = Opened
             /\ SubSeq(log.ops, Len(log.ops) - 1, Len(log.ops))
                   = <<"splitback", "assemble">>

\* An episode that was assembled without a single still.
C4_Witness ==
    /\ pc = "loop"
    /\ log.ops = Closed

\* C5: concat_vids with both files present and readable leaves the pre-roll content followed
\* by the after content in the episode file, removes after.h264 and changes no
\* other file.
C5_Assemble ==
    [][(Returns("concat") /\ exc' = "none"
          /\ Exists(files, H264Name(ts)) /\ Exists(files, AfterName))
         => /\ files'[H264Name(ts)] = files[H264Name(ts)] \o files[AfterName]
            /\ Len(files'[H264Name(ts)])
                  = Len(files[H264Name(ts)]) + Len(files[AfterName])
            /\ DOMAIN files' = DOMAIN files \ {AfterName}
            /\ \A n \in DOMAIN files' \ {H264Name(ts)} : files'[n] = files[n]]_vars

\* An assembled episode file with chunks from before and from after the split.
C5_Witness ==
    /\ pc = "loop"
    /\ EndsWith(log.ops, "assemble")
    /\ ~Exists(files, AfterName)
    /\ Exists(files, H264Name(ts))
    /\ \E i, j \in 1..Len(files[H264Name(ts)]) :
          /\ i < j
          /\ files[H264Name(ts)][i].t < ts
          /\ files[H264Name(ts)][j].t >= ts

\* C6: when the quiet-window check fires with no episode on record, nothing is
\* converted, no error is raised and the loop goes on to its next tick.
C6_GuardedNoOp ==
    [][(Returns("convert") /\ ts = Unbound)
         => pc' = "loop" /\ exc' = "none" /\ log' = log /\ files' = files]_vars

\* C7: convert_video on a timestamp whose .h264 does not exist raises nothing
\* and leaves the files as they are, and converting an episode a second time
\* after a successful conversion changes nothing.
C7_ConvertIdempotent ==
    /\ [][(Returns("convert") /\ ts # Unbound /\ ~Exists(files, H264Name(ts)))
            => pc' = "loop" /\ exc' = "none" /\ files' = files]_vars
    /\ [](ts # Unbound =>
            \A s1, s2 \in {0, 1} :
               LET once == convert_video(files, ts, s1)
                   twice == convert_video(once.files, ts, s2)
               IN  (~Exists(once.files, H264Name(ts)))
                      => ~twice.raised /\ twice.files = once.files)

\* The transcoder was run again for an episode that was already converted.
C7_Witness ==
    /\ pc = "loop"
    /\ exc = "none"
    /\ log.conv >= 2
    /\ ~log.src
    /\ Exists(files, Mp4Name(ts))

\* C8: after exit code 0 the source .h264 is gone and the .mp4 exists; after a
\* non-zero exit code no file has changed; either way the loop goes on.
C8_ConvertOutcome ==
    [][(Returns("convert") /\ ts # Unbound)
         => /\ pc' = "loop" /\ exc' = "none"
            /\ log'.rc = 0 => /\ ~Exists(files', H264Name(ts))
                              /\ Exists(files', Mp4Name(ts))
            /\ log'.rc # 0 => files' = files]_vars

\* The transcoder failed on an existing source, which is still there.
C8_Witness ==
    /\ pc = "loop"
    /\ log.rc = 1
    /\ log.src
    /\ Exists(files, H264Name(ts))
    /\ ~Exists(files, Mp4Name(ts))

\* C9: an I/O error raised while an episode is processed does not end the
\* control loop.
C9_LoopSurvivesError ==
    exc = "OSError" => pc \notin {"finally", "done"}

\* C10: after an operator interrupt both splitter ports are stopped, no
\* assemble and no conversion happens any more, and the files of an open
\* episode stay on disk unmerged.
C10_Shutdown ==
    /\ []((exc = "KeyboardInterrupt" /\ pc = "done") => recording = {})
    /\ [][exc = "KeyboardInterrupt"
            => /\ log' = log
               /\ \A n \in DOMAIN files : n # AfterName
                     => n \in DOMAIN files' /\ files'[n] = files[n]]_vars
    /\ []((exc = "KeyboardInterrupt" /\ Len(log.ops) > 0
              /\ Last(log.ops) \in {"truncate", "still"})
            => /\ Exists(files, AfterName)
               /\ Exists(files, H264Name(ts))
               /\ \A i \in 1..Len(files[H264Name(ts)]) :
                     files[H264Name(ts)][i].t < ts)

\* The loop was interrupted while an episode was open and has shut down.
C10_Witness ==
    /\ exc = "KeyboardInterrupt"
    /\ pc = "done"
    /\ recording = {}
    /\ EndsWith(log.ops, "still")
    /\ Exists(files, AfterName)
    /\ Exists(files, H264Name(ts))

\* The state of the classifier and the names of the stills on disk.
MotionState == <<motion_detected, latest_motion>>
Jpgs(F) == {n \in DOMAIN F : n[1] = "jpg"}
EpisodeOpen == {"stilltest", "capture", "stillwait", "splitback"}

\* C11 as stated: the motion state (flag and latest_motion) is changed only by
\* analyze(); no step of the recording controller writes either field.
C11_Original ==
    [][MotionState' # MotionState => \E f \in Frames : Analyze(f)]_vars

\* C11 amended: latest_motion is changed only by analyze(), and the flag is
\* changed only by analyze() and by the reset that ends the startup warm-up
\* (line 123), which clears it and leaves latest_motion alone.
C11_SingleWriter ==
    [][MotionState' # MotionState
         => \/ \E f \in Frames : Analyze(f)
            \/ /\ pc = "warmup" /\ pc' = "loop"
               /\ motion_detected /\ ~motion_detected'
               /\ latest_motion' = latest_motion]_vars

\* The warm-up reset has cleared a flag that a qualifying frame had set.
C11_Witness ==
    /\ pc = "loop"
    /\ ts = Unbound
    /\ ~motion_detected
    /\ lastCount > MotionVectorCount
    /\ latest_motion >= StartTime

\* C12 as stated: the still counter restarts at 1 with every episode, so the
\* counter of the latest still equals the number of stills of the episode.
C12_Original ==
    pc \in EpisodeOpen => counter = NumStills(log.ops)

\* C12 amended: the counter starts at 1 with the first still of the run and
\* grows by one with every still, across episodes: the stills on disk carry
\* exactly the counters 1..counter, one each, in capture order.
C12_RunningCounter ==
    /\ {n[3] : n \in Jpgs(files)} = 1..counter
    /\ Cardinality(Jpgs(files)) = counter
    /\ \A m, n \in Jpgs(files) : m[3] < n[3] => m[2] <= n[2]
    /\ NumStills(log.ops) <= counter
    /\ \A n \in Jpgs(files) :
          (ts # Unbound /\ n[3] > counter - NumStills(log.ops)) => n[2] >= ts

\* A second episode whose first still carries a counter above 1.
C12_Witness ==
    /\ pc = "stillwait"
    /\ NumStills(log.ops) = 1
    /\ counter > 1
    /\ JpgName(now, counter) \in DOMAIN files

\* C13: the ring is read and truncated only while the encoder writes to the
\* after segment: write_video runs after the split to after.h264 and before
\* the split back, and the ring does not change while it is read.
C13_NoConcurrentRead ==
    /\ [](pc = "write" => dest = "after")
    /\ [][pc = "write" => (stream' = stream \/ (pc' = "stilltest" /\ stream' = <<>>))]_vars
    /\ [][(EndsWith(log'.ops, "truncate") /\ log'.ops # log.ops)
            => dest = "after" /\ dest' = "after"]_vars
    /\ [][dest = "stream" => (stream' = stream \/ Len(stream') > 0)]_vars

\* The encoder wrote to after.h264 while write_video copied the ring.
C13_Witness ==
    /\ pc = "stilltest"
    /\ EndsWith(log.ops, "truncate")
    /\ dest = "after"
    /\ stream = <<>>
    /\ Len(files[AfterName]) > 0
    /\ Len(files[H264Name(ts)]) > 0

\* C14: every activation gets an episode: when the flag falls back to false
\* (the warm-up reset aside), the controller is in the episode it opened for
\* that activation, also when the activation began during assemble or conversion.
C14_EveryActivationGetsEpisode ==
    [][(motion_detected /\ ~motion_detected' /\ ~(pc = "warmup" /\ pc' = "loop"))
         => pc \in {"split", "write", "stilltest", "capture", "stillwait"}]_vars

\* C15: once an episode has been converted successfully, the transcoder is not
\* run again for it on a later idle tick.
C15_NoRefire ==
    [][(ts # Unbound /\ Exists(files, Mp4Name(ts)) /\ ~Exists(files, H264Name(ts)))
         => log'.conv = log.conv]_vars

\* C16: a still is captured only in an open episode, after the split to the
\* after segment and the pre-roll flush and before the split back, and right
\* after a test of line 133 that found the flag set; never in Idle.
C16_StillsInEpisode ==
    /\ [][counter' # counter
            => /\ pc = "capture" /\ pc' = "stillwait"
               /\ dest = "after"
               /\ Steps(log.ops) = Opened /\ SubSeq(log.ops, 1, 3) = Opened
               /\ log'.ops = Append(log.ops, "still")
               /\ DOMAIN files' = DOMAIN files \cup {JpgName(now, counter')}]_vars
    /\ [][DOMAIN files' # DOMAIN files /\ Jpgs(files') # Jpgs(files)
            => counter' = counter + 1]_vars
    /\ [][(pc' = "capture" /\ pc # "capture")
            => pc = "stilltest" /\ motion_detected]_vars
    /\ [][(pc = "capture" /\ pc' # "capture")
            => counter' = counter + 1 \/ exc' = "KeyboardInterrupt"]_vars

\* Two stills have been captured in the open episode.
C16_Witness ==
    /\ pc = "stillwait"
    /\ NumStills(log.ops) = 2
    /\ dest = "after"
    /\ Cardinality(Jpgs(files)) >= 2

\* C17: no episode is opened before the warm-up has elapsed, the flag is
\* false when the warm-up ends, and a flag that is set afterwards with no
\* episode yet on record comes from a frame analyzed at or after that moment.
C17_WarmUp ==
    /\ [](pc = "warmup" => ts = Unbound /\ log.ops = <<>> /\ dest = "stream")
    /\ [](ts # Unbound => ts >= StartTime + WarmUp + PollInterval)
    /\ [][(pc = "warmup" /\ pc' = "loop") => ~motion_detected']_vars
    /\ []((pc \in InTry \ {"warmup"} /\ motion_detected)
            => latest_motion >= StartTime + WarmUp)

\* A frame qualified during the warm-up, its flag was discarded and the first
\* poll found nothing.
C17_Witness ==
    /\ pc = "loop"
    /\ now > StartTime + WarmUp
    /\ ts = Unbound
    /\ ~motion_detected
    /\ latest_motion >= StartTime
    /\ latest_motion < StartTime + WarmUp

\* C18: once qualifying frames stop, every open episode closes: a
\* non-qualifying frame clears a set flag exactly when now - latest_motion
\* exceeds motion_timeout, the still loop then exits to the split back, and
\* the episode is assembled and the loop is back at its top.
C18_EpisodeCloses ==
    /\ (pc = "write") ~> (pc = "loop" /\ Steps(log.ops) = Closed)
    /\ [][\A f \in Frames :
            (ExceedCount(f) <= MotionVectorCount /\ Analyze(f) /\ motion_detected)
               => (motion_detected' <=> now - latest_motion <= MotionTimeout)]_vars
    /\ [][(pc = "stilltest" /\ ~motion_detected /\ pc' # pc) => pc' = "splitback"]_vars

\* An episode with stills that closed after the flag had timed out.
C18_Witness ==
    /\ pc = "loop"
    /\ Steps(log.ops) = Closed
    /\ NumStills(log.ops) >= 1
    /\ ~motion_detected
    /\ now - latest_motion > MotionTimeout

Idle == {"loop", "wait", "check", "convert", "split"}
Redirected == {"write", "stilltest", "capture", "stillwait", "splitback"}
Videos(F) == {n \in DOMAIN F : n[1] \in {"h264", "mp4"}}

\* C19: at every poll of the main loop the encoder writes to the ring and
\* after.h264 does not exist; the encoder writes to after.h264 exactly from an
\* episode's split to its split back; without error or interrupt after.h264
\* exists exactly from the split until concat_vids has removed it.
C19_EncoderDestination ==
    /\ pc \in Idle => dest = "stream" /\ ~Exists(files, AfterName)
    /\ pc \in InTry => (dest = "after" <=> pc \in Redirected)
    /\ exc = "none" => (Exists(files, AfterName) <=> pc \in Redirected \cup {"concat"})

\* A poll after a completed episode.
C19_Witness ==
    /\ pc = "check"
    /\ Steps(log.ops) = Closed
    /\ exc = "none"
    /\ dest = "stream"
    /\ ~Exists(files, AfterName)
    /\ Len(stream) > 0

\* C20: the timestamp of an episode is at least the poll interval later than
\* that of the episode before, so the keys are distinct and the pre-roll
\* flush never opens the file of an earlier episode.
C20_DistinctKeys ==
    /\ [][(pc = "split" /\ pc' = "write" /\ ts # Unbound)
            => ts' >= ts + PollInterval]_vars
    /\ [](pc = "write" => \A n \in Videos(files) : n[2] < ts)
    /\ [][(pc = "write" /\ pc' = "stilltest")
            => /\ ~Exists(files, H264Name(ts))
               /\ \A n \in Videos(files) : n \in DOMAIN files' /\ files'[n] = files[n]]_vars

\* A second episode has flushed its pre-roll next to the file of the first.
C20_Witness ==
    /\ pc = "stilltest"
    /\ Exists(files, H264Name(ts))
    /\ \E n \in Videos(files) : n[2] < ts /\ Len(files[n]) > 0

====
